---- MODULE Spec2Model ----
(***************************************************************************)
(* A model of the hasoffers client library (src/hasoffers/hasoffers.py,    *)
(* src/hasoffers/models.py): the per-resource parameter builders, the      *)
(* dispatcher Hasoffers.send with its retry on "API usage exceeded rate    *)
(* limit", and the result mapper HasoffersDataMapper.                      *)
(*                                                                         *)
(* Python and JSON values are tagged records [t |-> tag, v |-> payload]:   *)
(*   none, bool, int, str (a sequence of characters or words), sym (an     *)
(*   opaque string whose characters the code never inspects), list,        *)
(*   dict (an insertion-ordered sequence of <<key, value>> pairs),         *)
(*   entity (a models.Model instance: class name and its __dict__),        *)
(*   response (a Response instance).                                       *)
(***************************************************************************)
EXTENDS Integers, Sequences, FiniteSets, TLC

(***************************************************************************)
(* Bounds of the model.                                                    *)
(***************************************************************************)
\* the largest integer retry_count a client is configured with
MaxRetry == 3
\* the server answers "rate limit" to at most MaxRetry + MaxExtra sends of a
\* call (caps the unbounded retry of TILL_SUCCESS)
MaxExtra == 1
\* the largest number of optional arguments a caller passes explicitly
MaxPassed == 2
\* the largest number of items of a collection the server returns
MaxItems == 2

(***************************************************************************)
(* Python values.                                                          *)
(***************************************************************************)
PyNone == [t |-> "none"]
PyBool(b) == [t |-> "bool", v |-> b]
PyInt(n) == [t |-> "int", v |-> n]
PyStr(s) == [t |-> "str", v |-> s]
PySym(s) == [t |-> "sym", v |-> s]
PyList(s) == [t |-> "list", v |-> s]
PyDict(s) == [t |-> "dict", v |-> s]

\* a result of evaluating Python code: a value, or a raised exception
Ok(v) == [ok |-> TRUE, val |-> v]
Raise(type) == [ok |-> FALSE, exc |-> [type |-> type]]

\* Python truthiness, as tested by `if x:`
Truthy(x) ==
    CASE x.t = "none" -> FALSE
      [] x.t = "bool" -> x.v
      [] x.t = "int" -> x.v # 0
      [] x.t \in {"str", "list", "dict"} -> Len(x.v) > 0
      [] OTHER -> TRUE

\* len(x); None and numbers have no len()
PyLen(x) ==
    IF x.t \in {"str", "list", "dict"} THEN Ok(Len(x.v)) ELSE Raise("TypeError")

\* k in d, for a dict d
Has(d, k) == \E i \in 1..Len(d.v) : d.v[i][1] = k

\* d[k], for a dict d that has k
Get(d, k) == d.v[CHOOSE i \in 1..Len(d.v) : d.v[i][1] = k][2]

\* d[k] = x: replaces the value in place, or appends the new key
DictSet(d, k, x) ==
    IF Has(d, k)
    THEN PyDict([i \in 1..Len(d.v) |-> IF d.v[i][1] = k THEN <<k, x>> ELSE d.v[i]])
    ELSE PyDict(Append(d.v, <<k, x>>))

Keys(d) == {d.v[i][1] : i \in 1..Len(d.v)}

Digits == <<"0", "1", "2", "3", "4", "5", "6", "7", "8", "9">>
IsDigit(c) == \E i \in 1..10 : Digits[i] = c
DigitVal(c) == (CHOOSE i \in 1..10 : Digits[i] = c) - 1

RECURSIVE ParseDigits(_)
ParseDigits(s) ==
    IF Len(s) = 0 THEN 0
    ELSE 10 * ParseDigits(SubSeq(s, 1, Len(s) - 1)) + DigitVal(s[Len(s)])

AllDigits(s) == Len(s) > 0 /\ \A i \in 1..Len(s) : IsDigit(s[i])

\* int(x): an int is itself, a bool is 0 or 1, a string is parsed as an
\* optionally signed decimal numeral; anything else raises
PyIntOf(x) ==
    CASE x.t = "int" -> Ok(x.v)
      [] x.t = "bool" -> Ok(IF x.v THEN 1 ELSE 0)
      [] x.t = "str" ->
            IF AllDigits(x.v) THEN Ok(ParseDigits(x.v))
            ELSE IF Len(x.v) > 1 /\ x.v[1] = "-" /\ AllDigits(Tail(x.v))
                 THEN Ok(0 - ParseDigits(Tail(x.v)))
                 ELSE Raise("ValueError")
      [] OTHER -> Raise("TypeError")

\* needle in msg, for two strings
Contains(msg, needle) ==
    \E i \in 0..(Len(msg) - Len(needle)) :
        \A j \in 1..Len(needle) : msg[i + j] = needle[j]

(***************************************************************************)
(* The per-resource operations.  Each builds _params from a dict literal   *)
(* (Method first, then the arguments it always sends) followed by the      *)
(* guarded assignments `if x: _params[key] = x`, and hands it to           *)
(* Hasoffers.call.  An operation is described by                           *)
(*   target, method   the class's target and the literal's 'Method'        *)
(*   literal          <<argument, key>> pairs of the dict literal          *)
(*   guarded          <<argument, key>> pairs of the guarded assignments   *)
(*   defaults         the signature's defaults (its optional arguments)    *)
(*   return_model, verb, files   what is passed on to call                 *)
(***************************************************************************)
FindAllGuarded ==
    << <<"filters", "filters">>, <<"sort", "sort">>, <<"limit", "limit">>,
       <<"page", "page">>, <<"fields", "fields">>, <<"contain", "contain">> >>

FindAllDefaults ==
    PyDict(<< <<"filters", PyNone>>, <<"sort", PyNone>>, <<"limit", PyNone>>,
              <<"page", PyNone>>, <<"fields", PyNone>>, <<"contain", PyNone>> >>)

Operation(target, method, literal, guarded, defaults) ==
    [target |-> target, method |-> method, literal |-> literal,
     guarded |-> guarded, defaults |-> defaults,
     return_model |-> PyNone, verb |-> "GET", files |-> FALSE]

Offer_find_all ==
    Operation("Offer", "findAll", <<>>, FindAllGuarded, FindAllDefaults)

Offer_find_by_id ==
    Operation("Offer", "findById",
              << <<"id", "id">>, <<"fields", "fields">>, <<"contain", "contain">> >>,
              <<>>,
              PyDict(<< <<"fields", PyList(<<>>)>>, <<"contain", PyList(<<>>)>> >>))

Offer_get_pixels ==
    [Operation("Offer", "getPixels", << <<"id", "id">> >>,
               << <<"status", "status">> >>, PyDict(<< <<"status", PyNone>> >>))
     EXCEPT !.return_model = PySym("OfferPixel")]

Offer_create ==
    Operation("Offer", "create",
              << <<"data", "data">>, <<"return_object", "return_object">> >>,
              <<>>, PyDict(<< <<"return_object", PyBool(FALSE)>> >>))

Offer_set_categories ==
    Operation("Offer", "setCategories",
              << <<"id_", "id">>, <<"category_ids", "category_ids">> >>,
              <<>>, PyDict(<<>>))

Offer_set_affiliate_approval ==
    Operation("Offer", "setAffiliateApproval",
              << <<"offer_id", "id">>, <<"affiliate_id", "affiliate_id">>,
                 <<"status", "status">> >>,
              <<>>, PyDict(<<>>))

Offer_add_group ==
    Operation("Offer", "addGroup",
              << <<"id_", "id">>, <<"group_id", "group_id">> >>, <<>>, PyDict(<<>>))

Offer_add_target_country ==
    Operation("Offer", "addTargetCountry",
              << <<"id_", "id">>, <<"country_code", "country_code">> >>,
              << <<"regions", "regions">>, <<"region_code", "region_code">> >>,
              PyDict(<< <<"regions", PyNone>>, <<"region_code", PyNone>> >>))

Offer_update_field ==
    Operation("Offer", "updateField",
              << <<"id_", "id">>, <<"field", "field">>, <<"value", "value">>,
                 <<"return_object", "return_object">> >>,
              <<>>, PyDict(<< <<"return_object", PyBool(FALSE)>> >>))

Offer_update ==
    Operation("Offer", "update",
              << <<"id_", "id">>, <<"data", "data">>,
                 <<"return_object", "return_object">> >>,
              <<>>, PyDict(<< <<"return_object", PyBool(FALSE)>> >>))

Offer_generate_tracking_pixel ==
    Operation("Offer", "generateTrackingPixel", << <<"id_", "offer_id">> >>,
              << <<"params", "params">>, <<"options", "options">> >>,
              PyDict(<< <<"params", PyNone>>, <<"options", PyNone>> >>))

Offer_generate_tracking_link ==
    Operation("Offer", "generateTrackingLink",
              << <<"id_", "offer_id">>, <<"affiliate_id", "affiliate_id">> >>,
              << <<"params", "params">>, <<"options", "options">>,
                 <<"optionalFields", "optionalFields">> >>,
              PyDict(<< <<"params", PyNone>>, <<"options", PyNone>>,
                        <<"optionalFields", PyNone>> >>))

Conversion_find_all ==
    Operation("Conversion", "findAll", <<>>, FindAllGuarded, FindAllDefaults)

Conversion_update_status ==
    Operation("Conversion", "updateStatus",
              << <<"id", "id">>, <<"status", "status">> >>, <<>>, PyDict(<<>>))

Conversion_update ==
    Operation("Conversion", "update",
              << <<"id", "id">>, <<"data", "data">>,
                 <<"return_object", "return_object">> >>,
              << <<"ad_id", "ad_id">>, <<"transaction_id", "transaction_id">>,
                 <<"should_standardize", "shouldStandardize">> >>,
              PyDict(<< <<"return_object", PyBool(FALSE)>>, <<"ad_id", PyNone>>,
                        <<"transaction_id", PyNone>>,
                        <<"should_standardize", PyNone>> >>))

Conversion_find_by_id ==
    Operation("Conversion", "findById", <<>>,
              << <<"id", "id">>, <<"fields", "fields">>, <<"contain", "contain">>,
                 <<"ad_id", "ad_id">>, <<"transaction_id", "transaction_id">> >>,
              PyDict(<< <<"id", PyNone>>, <<"fields", PyNone>>, <<"contain", PyNone>>,
                        <<"ad_id", PyNone>>, <<"transaction_id", PyNone>> >>))

Affiliate_find_all ==
    Operation("Affiliate", "findAll", <<>>, FindAllGuarded, FindAllDefaults)

Affiliate_get_offer_pixels ==
    [Operation("Affiliate", "getOfferPixels", << <<"id", "id">> >>,
               << <<"status", "status">> >>, PyDict(<< <<"status", PyNone>> >>))
     EXCEPT !.return_model = PySym("OfferPixel")]

Affiliate_add_account_note ==
    Operation("Affiliate", "addAccountNote",
              << <<"id_", "id">>, <<"note", "note">> >>, <<>>, PyDict(<<>>))

AffiliateUser_find_all ==
    Operation("AffiliateUser", "findAll", <<>>, FindAllGuarded, FindAllDefaults)

Advertiser_find_all ==
    Operation("Advertiser", "findAll", <<>>, FindAllGuarded, FindAllDefaults)

Advertiser_find_by_id ==
    Operation("Advertiser", "findById",
              << <<"id_", "id">>, <<"fields", "fields">>, <<"contain", "contain">> >>,
              <<>>,
              PyDict(<< <<"fields", PyList(<<>>)>>, <<"contain", PyList(<<>>)>> >>))

Application_add_offer_group ==
    Operation("Application", "addOfferGroup", << <<"data", "data">> >>,
              <<>>, PyDict(<<>>))

OfferPixel_create ==
    Operation("OfferPixel", "create",
              << <<"data", "data">>, <<"return_object", "return_object">> >>,
              <<>>, PyDict(<< <<"return_object", PyBool(FALSE)>> >>))

OfferFile_create ==
    [Operation("OfferFile", "create",
               << <<"data", "data">>, <<"return_object", "return_object">> >>,
               <<>>, PyDict(<< <<"return_object", PyBool(FALSE)>> >>))
     EXCEPT !.verb = "POST", !.files = TRUE]

Operations ==
    {Offer_find_all, Offer_find_by_id, Offer_get_pixels, Offer_create,
     Offer_set_categories, Offer_set_affiliate_approval, Offer_add_group,
     Offer_add_target_country, Offer_update_field, Offer_update,
     Offer_generate_tracking_pixel, Offer_generate_tracking_link,
     Conversion_find_all, Conversion_update_status, Conversion_update,
     Conversion_find_by_id, Affiliate_find_all, Affiliate_get_offer_pixels,
     Affiliate_add_account_note, AffiliateUser_find_all, Advertiser_find_all,
     Advertiser_find_by_id, Application_add_offer_group, OfferPixel_create,
     OfferFile_create}


\* the names of an operation's arguments, and of those with a default
ArgNames(op) ==
    {op.literal[i][1] : i \in 1..Len(op.literal)}
        \cup {op.guarded[i][1] : i \in 1..Len(op.guarded)}

OptionalArgs(op) == Keys(op.defaults)

\* `if x: _params[key] = x`, for each guarded argument in turn
RECURSIVE ApplyGuarded(_, _, _)
ApplyGuarded(p, g, a) ==
    IF Len(g) = 0 THEN p
    ELSE ApplyGuarded(IF Truthy(a[g[1][1]]) THEN DictSet(p, g[1][2], a[g[1][1]]) ELSE p,
                      Tail(g), a)

\* the same with the truthiness test dropped: every argument is assigned
RECURSIVE ApplyUnguarded(_, _, _)
ApplyUnguarded(p, g, a) ==
    IF Len(g) = 0 THEN p
    ELSE ApplyUnguarded(DictSet(p, g[1][2], a[g[1][1]]), Tail(g), a)

BuildParamsUnguarded(op, a) ==
    ApplyUnguarded(
        PyDict(<< <<"Method", PySym(op.method)>> >>
               \o [i \in 1..Len(op.literal) |-> <<op.literal[i][2], a[op.literal[i][1]]>>]),
        op.guarded, a)

\* _params as an operation builds it from its arguments a
BuildParams(op, a) ==
    ApplyGuarded(
        PyDict(<< <<"Method", PySym(op.method)>> >>
               \o [i \in 1..Len(op.literal) |-> <<op.literal[i][2], a[op.literal[i][1]]>>]),
        op.guarded, a)

(***************************************************************************)
(* The client and its requests.                                            *)
(***************************************************************************)
TILL_SUCCESS == PySym("TILL_SUCCESS")
ROOT == PySym("http://api.hasoffers.com/v3/")
NetworkId == PySym("network-id")
NetworkToken == PySym("network-token")

\* retry_count as given to Hasoffers.__init__ (default 1)
RetryPolicies == {TILL_SUCCESS} \cup {PyInt(n) : n \in 0..MaxRetry}

\* Request.__init__
NewRequest(url, params, target, return_model, method, files) ==
    [url |-> url, params |-> params, target |-> target,
     return_model |-> return_model, attempts |-> 0, method |-> method,
     files |-> files]

\* Hasoffers.call up to its call of send: the request it hands to send.
\* The query string is http_build_query(params), kept as the params it encodes.
CallRequest(target, params, return_model, request_method, request_data) ==
    LET p == DictSet(DictSet(params, "NetworkId", NetworkId),
                     "NetworkToken", NetworkToken)
        url == [root |-> ROOT, target |-> target, query |-> p]
    IN NewRequest(url, p, target, return_model, request_method, request_data)

\* a file object: a reference to the handle that open() returned
PyFile(h) == [t |-> "file", handle |-> h]

\* open(filepath, 'rb'): one more handle, positioned at the start of the
\* file and not yet read
OpenFile(hs) == Append(hs, [reads |-> 0])

\* the files an operation passes as request_data: OfferFile.create opens one
\* file, once, and passes it under the name data['filename']; h is the
\* handle that open() returned
FilesOf(op, a, h) ==
    IF op.files
    THEN PyDict(<< <<Get(a["data"], "filename").v, PyFile(h)>> >>)
    ELSE PyNone

NoRequest == [attempts |-> 0]
NoOperation == [method |-> "none"]
NoBody == [valid |-> FALSE, sent |-> FALSE]
Nothing == [t |-> "nothing"]

VARIABLES
    retry_count,    \* the client's retry policy
    pc,             \* "idle", "send", "sleep", "returned" or "raised"
    request,        \* the Request of the call in progress
    response_body,  \* r.text of the last physical send
    returned,       \* what send returned to the caller
    raised,         \* the exception send raised to the caller
    sends,          \* history: physical sends (requests.get / requests.post)
    sleeps,         \* history: time.sleep(0.25) calls
    onlyRateLimited,\* history: every answer so far was a rate-limit failure
    operation,      \* history: the operation the caller invoked
    arguments,      \* history: the arguments it was invoked with
    handles         \* the file handles opened so far, and for each the
                    \* number of sends that read it to transmit its content

vars == <<retry_count, pc, request, response_body, returned, raised, sends,
          sleeps, onlyRateLimited, operation, arguments, handles>>


(***************************************************************************)
(* Entities (models.py) and the result mapper.                             *)
(***************************************************************************)
\* d[k]: a dict without the key raises KeyError, a non-dict TypeError
Subscript(d, k) ==
    IF d.t = "dict"
    THEN IF Has(d, k) THEN Ok(Get(d, k)) ELSE Raise("KeyError")
    ELSE Raise("TypeError")

\* Model.__init__ without the conversion of 'id'
ModelInitKeepId(cls, d) ==
    IF d.t # "dict" THEN Raise("Exception")
    ELSE Ok([t |-> "entity", cls |-> cls, dict |-> d])

\* Model.__init__: every key becomes an attribute, 'id' as int(v)
ModelInit(cls, d) ==
    IF d.t # "dict" THEN Raise("Exception")
    ELSE IF Has(d, "id") /\ ~PyIntOf(Get(d, "id")).ok
         THEN [ok |-> FALSE, exc |-> PyIntOf(Get(d, "id")).exc]
         ELSE Ok([t |-> "entity", cls |-> cls,
                  dict |-> PyDict([i \in 1..Len(d.v) |->
                              IF d.v[i][1] = "id"
                              THEN <<"id", PyInt(PyIntOf(d.v[i][2]).val)>>
                              ELSE d.v[i]])])

\* the keys of HASOFFERS_ENTITY_MAP; each names the models class of that name,
\* and every such class inherits Model.__init__
HASOFFERS_ENTITY_MAP ==
    {"Offer", "Advertiser", "Conversion", "Affiliate", "OfferPixel", "Country"}

NO == 1
INT == 2
OBJECT == 3
COLLECTION == 4
\* BOOLEAN in the source; the name is a TLA+ keyword
BOOLEAN_ == 5

METHODS_MAPPING ==
    PyDict(<<
        <<"Offer", PyDict(<< <<"findById", OBJECT>>, <<"findAll", COLLECTION>>,
                             <<"getPixels", COLLECTION>> >>)>>,
        <<"Conversion", PyDict(<< <<"findAll", COLLECTION>> >>)>>,
        <<"Affiliate", PyDict(<< <<"findAll", COLLECTION>>,
                                 <<"getOfferPixels", COLLECTION>> >>)>>,
        <<"Advertiser", PyDict(<< <<"findAll", COLLECTION>>,
                                  <<"findById", OBJECT>> >>)>> >>)

\* HasoffersDataMapper.map_one
MapOne(object_name, data) ==
    IF object_name.v \notin HASOFFERS_ENTITY_MAP THEN Raise("KeyError")
    ELSE ModelInit(object_name.v, data)

\* obj.__dict__['raw_data'] = x
WithRawData(obj, x) == [obj EXCEPT !.dict = DictSet(obj.dict, "raw_data", x)]

\* the loop of map_to_collection over data.items(), collection being acc
RECURSIVE MapItems(_, _, _)
MapItems(object_name, items, acc) ==
    IF Len(items) = 0 THEN Ok(PyList(acc))
    ELSE LET object_scope == items[1][2]
             frag == Subscript(object_scope, object_name.v)
             obj == MapOne(object_name, frag.val)
         IN IF ~frag.ok THEN frag
            ELSE IF ~obj.ok THEN obj
            ELSE MapItems(object_name, Tail(items),
                          Append(acc, WithRawData(obj.val, object_scope)))

\* HasoffersDataMapper.map_to_collection
MapToCollection(object_name, data) ==
    IF ~PyLen(data).ok THEN PyLen(data)
    ELSE IF PyLen(data).val = 0 THEN Ok(PyNone)
    ELSE IF data.t # "dict" THEN Raise("AttributeError")
    ELSE MapItems(object_name, data.v, <<>>)

\* map_one_object past its test for empty data (lines 614-616)
MapNonEmptyObject(object_name, data) ==
    LET frag == Subscript(data, object_name.v)
        obj == MapOne(object_name, frag.val)
    IN IF ~frag.ok THEN frag
       ELSE IF ~obj.ok THEN obj
       ELSE Ok(WithRawData(obj.val, data))

\* HasoffersDataMapper.map_one_object
MapOneObject(object_name, data) ==
    IF ~PyLen(data).ok THEN PyLen(data)
    ELSE IF PyLen(data).val = 0 THEN Ok(PyNone)
    ELSE MapNonEmptyObject(object_name, data)

\* the mapping type map looks up for the response's target and method
MappingType(response) ==
    IF Has(METHODS_MAPPING, response.target.v)
       /\ Has(Get(METHODS_MAPPING, response.target.v), response.method.v)
    THEN Get(Get(METHODS_MAPPING, response.target.v), response.method.v)
    ELSE NO

\* a limit test that never sees a limit
IsLimitNever(req) == Ok(FALSE)

\* the limit test of map: Ok(_is_limit), or what int() raised

IsLimit(req) ==
    IF Has(req.params, "limit") /\ Truthy(Get(req.params, "limit"))
    THEN LET value == PyIntOf(Get(req.params, "limit"))
         IN IF value.ok THEN Ok(value.val > 0) ELSE value
    ELSE Ok(FALSE)

\* request.return_model or target
ModelName(req, response) ==
    IF Truthy(req.return_model) THEN req.return_model ELSE response.target

\* map that treats every response as an OBJECT
MapAsObject(req, response) ==
    MapOneObject(ModelName(req, response), response.data)

\* HasoffersDataMapper.map
Map(req, response) ==
    LET mapping_type == MappingType(response)
        model_name == ModelName(req, response)
    IN IF mapping_type = OBJECT
       THEN MapOneObject(model_name, response.data)
       ELSE IF mapping_type = COLLECTION
       THEN LET is_limit == IsLimit(req)
                inner == Subscript(response.data, "data")
            IN IF ~is_limit.ok THEN is_limit
               ELSE IF is_limit.val
               THEN IF inner.ok THEN MapToCollection(model_name, inner.val)
                    ELSE inner
               ELSE MapToCollection(model_name, response.data)
       ELSE Ok(response)

\* Response.__init__
NewResponse(req, result) ==
    LET rq == Subscript(result, "request")
        rs == Subscript(result, "response")
        Field(d, k) == IF d.ok THEN Subscript(d.val, k) ELSE d
        fs == << Field(rq, "Target"), Field(rq, "Method"), Field(rs, "status"),
                 Field(rs, "httpStatus"), Field(rs, "errors"),
                 Field(rs, "errorMessage"), Field(rs, "data") >>
    IN IF \E i \in 1..7 : ~fs[i].ok
       THEN fs[CHOOSE i \in 1..7 : ~fs[i].ok /\ \A j \in 1..(i - 1) : fs[j].ok]
       ELSE Ok([t |-> "response", request |-> req, target |-> fs[1].val,
                method |-> fs[2].val, response_body |-> result,
                status |-> fs[3].val, httpStatus |-> fs[4].val,
                errors |-> fs[5].val, errorMessage |-> fs[6].val,
                data |-> fs[7].val])


(***************************************************************************)
(* Hasoffers.send.                                                         *)
(***************************************************************************)
\* the text cast_error looks for, word by word
RateLimitText == <<"API", "usage", "exceeded", "rate", "limit">>

\* json.loads(response_body)
JsonLoads(body) == IF body.valid THEN Ok(body.json) ELSE Raise("ValueError")

\* the success test with the status ignored
FailedOnlyWithoutResponse(result) == Ok(~Has(result, "response"))

\* the test of line 84: 'response' not in result or
\* result['response']['status'] != 1
Failed(result) ==
    IF ~Has(result, "response") THEN Ok(TRUE)
    ELSE LET status == Subscript(Get(result, "response"), "status")
         IN IF status.ok THEN Ok(status.val # PyInt(1)) ELSE status

\* the exception `raise self.cast_error(result)` raises: the one cast_error
\* returns, or the one cast_error itself fails with
CastError(result) ==
    IF ~Has(result, "response") \/ ~Has(Get(result, "response"), "status")
    THEN [type |-> "Error"]
    ELSE LET msg == Subscript(Get(result, "response"), "errorMessage")
         IN IF ~msg.ok THEN msg.exc
            ELSE IF msg.val.t # "str" THEN [type |-> "TypeError"]
            ELSE IF Contains(msg.val.v, RateLimitText)
                 THEN [type |-> "APIUsageExceededRateLimit"]
                 ELSE [type |-> "Error"]

\* an except clause that catches every library error
CaughtAnyError(e) == e.type \in {"Error", "ValidateError", "APIUsageExceededRateLimit"}

\* `except APIUsageExceededRateLimit:` (line 87) catches e
Caught(e) == e.type = "APIUsageExceededRateLimit"

\* the classes derived from Error
LibraryErrors == {"Error", "ValidateError", "APIUsageExceededRateLimit"}

\* retry decisions a slip would make instead
ShouldRetryOnceMore(rc, attempts) ==
    IF rc = TILL_SUCCESS THEN TRUE ELSE rc.v > 1 /\ attempts <= rc.v

ShouldRetryNever(rc, attempts) ==
    IF rc = TILL_SUCCESS THEN FALSE ELSE rc.v > 1 /\ attempts < rc.v

\* the except clause's decision to resend (lines 88-95)
ShouldRetry(rc, attempts) ==
    IF rc = TILL_SUCCESS THEN TRUE ELSE rc.v > 1 /\ attempts < rc.v

\* send from line 82 on, for the body received: resend, raise or return
AfterReceive(rc, req, body) ==
    LET parsed == JsonLoads(body)
        result == parsed.val
        failed == Failed(result)
        e == CastError(result)
        response == NewResponse(req, result)
        mapped == Map(req, response.val)
    IN IF ~parsed.ok THEN [do |-> "raise", exc |-> parsed.exc]
       ELSE IF ~failed.ok THEN [do |-> "raise", exc |-> failed.exc]
       ELSE IF failed.val
       THEN IF Caught(e)
            THEN IF ShouldRetry(rc, req.attempts)
                 THEN [do |-> "resend"]
                 ELSE [do |-> "raise", exc |-> CastError(result)]
            ELSE [do |-> "raise", exc |-> e]
       ELSE IF ~response.ok THEN [do |-> "raise", exc |-> response.exc]
       ELSE IF ~mapped.ok THEN [do |-> "raise", exc |-> mapped.exc]
       ELSE [do |-> "return", val |-> mapped.val]

(***************************************************************************)
(* What the server may answer.                                             *)
(***************************************************************************)
Fragments ==
    { PyDict(<< <<"id", PyStr(<<"4", "2">>)>>, <<"name", PySym("first")>> >>),
      PyDict(<< <<"id", PyInt(7)>> >>),
      PyDict(<< <<"name", PySym("anonymous")>> >>),
      PyDict(<< <<"id", PyStr(<<"x">>)>> >>) }

Scopes ==
    {PyDict(<< <<"Offer", f>> >>) : f \in Fragments}
        \cup { PyDict(<< <<"Offer", PyDict(<< <<"id", PyStr(<<"0", "9">>)>> >>)>>,
                         <<"Advertiser", PyDict(<< <<"id", PyInt(3)>> >>)>> >>),
               PyDict(<< <<"OfferPixel", PyDict(<< <<"id", PyStr(<<"1", "0">>)>> >>)>> >>) }

ItemScopes ==
    { PyDict(<< <<"Offer", PyDict(<< <<"id", PyStr(<<"4", "2">>)>>,
                                     <<"name", PySym("first")>> >>)>> >>),
      PyDict(<< <<"Offer", PyDict(<< <<"id", PyInt(7)>> >>)>>,
                <<"Advertiser", PyDict(<< <<"id", PyInt(3)>> >>)>> >>),
      PyDict(<< <<"OfferPixel", PyDict(<< <<"id", PyStr(<<"1", "0">>)>> >>)>> >>) }

ItemKeys == <<"11", "5", "8", "2">>

\* keyed collections of 1..MaxItems items, in the order the server sent them
Collections ==
    UNION { { PyDict([i \in 1..n |-> <<ItemKeys[i], c[i]>>]) : c \in [1..n -> ItemScopes] }
            : n \in 1..MaxItems }

Empties == {PyDict(<<>>), PyList(<<>>)}

Paginated(c) == PyDict(<< <<"page", PyInt(1)>>, <<"data", c>> >>)

DataValues ==
    Scopes \cup Empties \cup Collections
        \cup {Paginated(c) : c \in Collections \cup Empties}

Echoes ==
    { <<"Offer", "findById">>, <<"Offer", "findAll">>, <<"Offer", "create">>,
      <<"Advertiser", "findById">>, <<"Application", "addOfferGroup">> }

Envelope(echo, response) ==
    PyDict(<< <<"request", PyDict(<< <<"Target", PySym(echo[1])>>,
                                     <<"Method", PySym(echo[2])>> >>)>>,
              <<"response", response>> >>)

ResponseObject(status, message, data) ==
    PyDict(<< <<"status", PyInt(status)>>, <<"httpStatus", PyInt(200)>>,
              <<"errors", PyList(<<>>)>>, <<"errorMessage", message>>,
              <<"data", data>> >>)

ErrorMessages ==
    { PyStr(RateLimitText),
      PyStr(<<"Error:">> \o RateLimitText \o <<"for", "network">>),
      PyStr(<<"API", "usage", "exceeded">>),
      PyStr(<<"Invalid", "NetworkToken">>),
      PyStr(<<>>),
      PyNone }

FailureStatuses == {0, -1}

Json(j) == [valid |-> TRUE, json |-> j]

SuccessBodies ==
    { Json(Envelope(e, ResponseObject(1, PyNone, d))) : e \in Echoes, d \in DataValues }

\* what a failed response carries as data: nothing, or an object all the same
FailureData ==
    { PyList(<<>>), PyDict(<< <<"Offer", PyDict(<< <<"id", PyInt(7)>> >>)>> >>) }

FailureBodies ==
    { Json(Envelope(<<"Offer", "findById">>, ResponseObject(s, m, d))) :
          s \in FailureStatuses, m \in ErrorMessages, d \in FailureData }

MalformedBodies ==
    { [valid |-> FALSE],
      Json(PyDict(<<>>)),
      Json(PyDict(<< <<"error", PySym("gateway timeout")>> >>)),
      Json(PyDict(<< <<"response", PyDict(<<>>)>> >>)),
      Json(PyDict(<< <<"response",
                       PyDict(<< <<"errorMessage", PyStr(RateLimitText)>> >>)>> >>)),
      Json(PyDict(<< <<"response", PyDict(<< <<"status", PyInt(0)>> >>)>> >>)),
      Json(PyDict(<< <<"response",
                       PyDict(<< <<"status", PyInt(1)>>, <<"data", PyDict(<<>>)>> >>)>> >>)) }

Bodies == SuccessBodies \cup FailureBodies \cup MalformedBodies

\* a status != 1 failure whose errorMessage contains the rate-limit text
RateLimitFailure(body) ==
    /\ body.valid
    /\ Has(body.json, "response")
    /\ Has(Get(body.json, "response"), "status")
    /\ Get(Get(body.json, "response"), "status") # PyInt(1)
    /\ Has(Get(body.json, "response"), "errorMessage")
    /\ Get(Get(body.json, "response"), "errorMessage").t = "str"
    /\ Contains(Get(Get(body.json, "response"), "errorMessage").v, RateLimitText)


(***************************************************************************)
(* What the caller may pass.                                               *)
(***************************************************************************)
\* the value passed for an argument without default
RequiredValue(x) ==
    IF x = "data" THEN PyDict(<< <<"filename", PySym("banner.png")>> >>)
    ELSE PyInt(7)

\* the limits a caller passes to the calls that are sent
LimitValues ==
    { PyNone, PyInt(0), PyInt(2), PyInt(-1), PyStr(<<"1", "0">>), PyStr(<<"0">>),
      PyStr(<<"a", "l", "l">>) }

\* the values a caller passes for an optional argument: the falsy ones
\* (None, [], False, 0, '') and a truthy one
ArgValues ==
    { PyNone, PyList(<<>>), PyBool(FALSE), PyInt(0), PyStr(<<>>), PyInt(2) }

\* every optional argument left at its default, but for limit
SentArguments(op) ==
    { [x \in ArgNames(op) |->
          IF x = "limit" THEN l
          ELSE IF x \in OptionalArgs(op) THEN Get(op.defaults, x)
          ELSE RequiredValue(x)] : l \in LimitValues }

\* the arguments of a call that passes o[x] for each optional argument x in
\* the domain of o and leaves the others at their defaults
WithOptional(op, o) ==
    [x \in ArgNames(op) |->
        IF x \in DOMAIN o THEN o[x]
        ELSE IF x \in OptionalArgs(op) THEN Get(op.defaults, x)
        ELSE RequiredValue(x)]

(***************************************************************************)
(* The state machine.                                                      *)
(***************************************************************************)
Init ==
    /\ retry_count \in RetryPolicies
    /\ pc = "idle"
    /\ request = NoRequest
    /\ response_body = NoBody
    /\ returned = Nothing
    /\ raised = Nothing
    /\ sends = 0
    /\ sleeps = 0
    /\ onlyRateLimited = TRUE
    /\ operation = NoOperation
    /\ arguments = <<>>
    /\ handles = <<>>

\* a client constructed with the default retry_count
InitDefault == Init /\ retry_count = PyInt(1)

\* a per-resource operation, up to where Hasoffers.call calls send
Invoke(op, a) ==
    /\ handles' = IF op.files THEN OpenFile(handles) ELSE handles
    /\ request' = CallRequest(op.target, BuildParams(op, a), op.return_model,
                              op.verb, FilesOf(op, a, Len(handles) + 1))
    /\ operation' = op
    /\ arguments' = a
    /\ pc' = "send"
    /\ UNCHANGED <<retry_count, response_body, returned, raised, sends, sleeps,
                   onlyRateLimited>>

\* the operations whose calls are followed through send: a collection with
\* and without limit, an object, a collection with a return_model, a
\* passthrough, and the POST with files
SentOperations ==
    {Offer_find_all, Offer_find_by_id, Offer_get_pixels, Offer_create,
     OfferFile_create}

Call ==
    /\ pc = "idle"
    /\ \E op \in SentOperations : \E a \in SentArguments(op) : Invoke(op, a)

CallAny ==
    /\ pc = "idle"
    /\ \E op \in Operations : \E passed \in SUBSET OptionalArgs(op) :
          /\ Cardinality(passed) <= MaxPassed
          /\ \E o \in [passed -> ArgValues] :
                \E a \in {WithOptional(op, o)} : Invoke(op, a)

\* Request.attempts after one more send that forgets the earlier ones
CountAttemptReset(req) == [req EXCEPT !.attempts = 1]

\* request.attempts += 1
CountAttempt(req) == [req EXCEPT !.attempts = req.attempts + 1]

\* the handles of the file objects in request.files
SentHandles(req) ==
    IF req.method = "POST" /\ Truthy(req.files)
    THEN {req.files.v[i][2].handle : i \in DOMAIN req.files.v}
    ELSE {}

\* lines 73-77: requests.post(request.url, files=request.files) reads every
\* file object of request.files, from where the handle stands to the end of
\* the file, to build the multipart body; requests.get reads none
Transmit(req, hs) ==
    [h \in DOMAIN hs |->
        IF h \in SentHandles(req) THEN [reads |-> hs[h].reads + 1] ELSE hs[h]]

\* one execution of send, lines 68-103, but for the sleep and the recursive
\* call: count the attempt, do the HTTP request, read r.text, and then raise,
\* return what the mapper made, or go to sleep before resending
Send ==
    /\ pc = "send"
    /\ request.method \in {"GET", "POST"}
    /\ \E body \in Bodies :
          /\ RateLimitFailure(body) => sends < MaxRetry + MaxExtra
          /\ \E after \in {AfterReceive(retry_count, CountAttempt(request), body)} :
                /\ request' = CountAttempt(request)
                /\ response_body' = body
                /\ pc' = CASE after.do = "resend" -> "sleep"
                           [] after.do = "raise" -> "raised"
                           [] after.do = "return" -> "returned"
                /\ raised' = IF after.do = "raise" THEN after.exc ELSE raised
                /\ returned' = IF after.do = "return" THEN after.val ELSE returned
          /\ onlyRateLimited' = (onlyRateLimited /\ RateLimitFailure(body))
    /\ sends' = sends + 1
    /\ handles' = Transmit(request, handles)
    /\ UNCHANGED <<retry_count, sleeps, operation, arguments>>

\* lines 90-91 and 94-95: time.sleep(0.25), then self.send(request)
Resend ==
    /\ pc = "sleep"
    /\ sleeps' = sleeps + 1
    /\ pc' = "send"
    /\ UNCHANGED <<retry_count, request, response_body, returned, raised, sends,
                   onlyRateLimited, operation, arguments, handles>>

Next == Call \/ Send \/ Resend

Spec == Init /\ [][Next]_vars

\* the sleep ends
LiveSpec == Spec /\ WF_vars(Resend)

\* the parameter builders alone, over every combination of optional arguments
NextBuild == CallAny

BuildSpec == InitDefault /\ [][NextBuild]_vars


(***************************************************************************)
(* Properties of the dispatcher.                                           *)
(***************************************************************************)
\* the response object of the body received, if it is JSON with one
HasResponseObject(body) == body.valid /\ Has(body.json, "response")
ResponseOf(body) == Get(body.json, "response")

\* the body is a response with a status other than 1 and an errorMessage
StatusFailure(body) ==
    /\ HasResponseObject(body)
    /\ Has(ResponseOf(body), "status")
    /\ Get(ResponseOf(body), "status") # PyInt(1)
    /\ Has(ResponseOf(body), "errorMessage")

\* ... whose errorMessage does not contain the rate-limit text
OtherFailure(body) == StatusFailure(body) /\ ~RateLimitFailure(body)

\* the body is a response of status 1
StatusOne(body) ==
    /\ HasResponseObject(body)
    /\ Has(ResponseOf(body), "status")
    /\ Get(ResponseOf(body), "status") = PyInt(1)

IntegerPolicy == retry_count.t = "int" /\ retry_count.v >= 1

\* C1: under retry policy N (an integer >= 1, 1 being the default), while every
\* answer is a rate-limit failure, send never sends more than N times, sleeps
\* and resends only while fewer than N sends were made, never returns, and
\* ends only with the N-th send, with APIUsageExceededRateLimit.
C1_ExactlyNSends ==
    (IntegerPolicy /\ onlyRateLimited /\ sends > 0) =>
        /\ sends <= retry_count.v
        /\ pc \in {"sleep", "send", "raised"}
        /\ pc = "sleep" => sends < retry_count.v /\ sleeps = sends - 1
        /\ pc = "send" => sends < retry_count.v /\ sleeps = sends
        /\ pc = "raised" =>
              /\ sends = retry_count.v
              /\ sleeps = retry_count.v - 1
              /\ raised = [type |-> "APIUsageExceededRateLimit"]

C1_Witness ==
    /\ retry_count = PyInt(MaxRetry)
    /\ onlyRateLimited
    /\ pc = "raised"
    /\ sends = MaxRetry
    /\ sleeps = MaxRetry - 1
    /\ raised.type = "APIUsageExceededRateLimit"

\* C2: under every retry policy, a status != 1 failure whose errorMessage does
\* not contain the rate-limit text ends the call with the send that received
\* it: send raises, with no sleep and no resend, and the exception is the
\* library's Error when the errorMessage is a string; when such a failure is
\* the first answer exactly one physical send has happened; a sleep and resend
\* only ever follow a rate-limit failure.
C2_NoRetryOfOtherFailures ==
    /\ [][(pc = "send" /\ OtherFailure(response_body')) =>
            /\ pc' = "raised"
            /\ sends' = sends + 1
            /\ sleeps' = sleeps
            /\ Get(ResponseOf(response_body'), "errorMessage").t = "str"
                  => raised' = [type |-> "Error"]]_vars
    /\ []((pc = "raised" /\ OtherFailure(response_body) /\ sleeps = 0) => sends = 1)
    /\ []((pc \in {"sleep", "send"} /\ sends > 0) => RateLimitFailure(response_body))
    /\ [][pc = "raised" => UNCHANGED vars]_vars

C2_Witness ==
    /\ retry_count = TILL_SUCCESS
    /\ pc = "raised"
    /\ OtherFailure(response_body)
    /\ Get(ResponseOf(response_body), "errorMessage") = PyStr(<<"API", "usage", "exceeded">>)
    /\ raised = [type |-> "Error"]
    /\ sends = 1
    /\ sleeps = 0

\* C5: send returns a value only for a response of status 1; a call whose last
\* response has another status, or no response object, ends with an exception
\* and returns nothing.
C5_ValueOnlyForStatusOne ==
    /\ returned # Nothing => pc = "returned"
    /\ pc = "returned" => StatusOne(response_body) /\ returned # Nothing
    /\ (pc \in {"returned", "raised"} /\ ~StatusOne(response_body)) =>
          pc = "raised" /\ returned = Nothing /\ raised # Nothing
    /\ pc = "send" => returned = Nothing

C5_Witness ==
    /\ pc = "raised"
    /\ StatusFailure(response_body)
    /\ Truthy(Get(ResponseOf(response_body), "data"))
    /\ returned = Nothing

\* C10: attempts is 0 in a new request, always equals the number of physical
\* sends of the call, grows by exactly one with each send and by nothing
\* else, and no step changes any other field of the request.
C10_AttemptsCountSends ==
    /\ [](request.attempts = sends)
    /\ [][pc = "idle" => request'.attempts = 0]_vars
    /\ [][pc # "idle" =>
            /\ request' = [request EXCEPT !.attempts = request'.attempts]
            /\ \/ request'.attempts = request.attempts /\ sends' = sends
               \/ request'.attempts = request.attempts + 1 /\ sends' = sends + 1
                    /\ pc = "send"]_vars

C10_Witness ==
    /\ sends = MaxRetry
    /\ request.attempts = MaxRetry
    /\ sleeps = MaxRetry - 1
    /\ pc = "raised"


\* the body is a status-1 response that Response.__init__ and the mapper accept
Mappable(req, body) ==
    /\ StatusOne(body)
    /\ NewResponse(req, body.json).ok
    /\ Map(req, NewResponse(req, body.json).val).ok

\* C3: under TILL_SUCCESS every rate-limit failure, however many came before,
\* puts send to sleep and the sleep is followed by a resend of the same
\* request; the call never ends with APIUsageExceededRateLimit; and the send
\* that receives a status-1 response the mapper accepts returns what the
\* mapper makes of it.
C3_RetryTillSuccess ==
    /\ [](retry_count = TILL_SUCCESS =>
            ~(pc = "raised" /\ raised.type = "APIUsageExceededRateLimit"))
    /\ [][(retry_count = TILL_SUCCESS /\ pc = "send"
             /\ RateLimitFailure(response_body')) =>
            /\ pc' = "sleep"
            /\ request' = CountAttempt(request)]_vars
    /\ [][(retry_count = TILL_SUCCESS /\ pc = "sleep") =>
            /\ pc' = "send"
            /\ sleeps' = sleeps + 1
            /\ request' = request]_vars
    /\ (retry_count = TILL_SUCCESS /\ pc = "sleep") ~> (pc = "send")
    /\ [][(retry_count = TILL_SUCCESS /\ pc = "send"
             /\ Mappable(request', response_body')) =>
            /\ pc' = "returned"
            /\ Ok(returned') = Map(request', NewResponse(request', response_body'.json).val)]_vars

C3_Witness ==
    /\ retry_count = TILL_SUCCESS
    /\ pc = "returned"
    /\ sleeps = MaxRetry + MaxExtra
    /\ sends = MaxRetry + MaxExtra + 1
    /\ returned.t = "entity"

\* the body is not JSON, or has no response object, or one without status
Malformed(body) ==
    \/ ~body.valid
    \/ ~Has(body.json, "response")
    \/ ~Has(Get(body.json, "response"), "status")

\* C4: a body that is not valid JSON, or lacks the response object, or whose
\* response object lacks status, makes send raise one of the library's errors
\* at once, without a retry.
C4_MalformedRaisesLibraryError ==
    (pc = "raised" /\ Malformed(response_body)) =>
        raised.type \in LibraryErrors

\* the KeyError of a response object without status
C4_Witness ==
    /\ pc = "raised"
    /\ response_body = Json(PyDict(<< <<"response", PyDict(<<>>)>> >>))
    /\ raised = [type |-> "KeyError"]


(***************************************************************************)
(* Properties of the result mapper, on the calls that reach it.            *)
(***************************************************************************)
\* the (target, method) pairs of the static classification table
ObjectPairs == { <<"Offer", "findById">>, <<"Advertiser", "findById">> }

CollectionPairs ==
    { <<"Offer", "findAll">>, <<"Offer", "getPixels">>, <<"Conversion", "findAll">>,
      <<"Affiliate", "findAll">>, <<"Affiliate", "getOfferPixels">>,
      <<"Advertiser", "findAll">> }

\* the last body is a complete envelope of status 1: a call that has ended
\* after it has ended in the mapper
Answered ==
    /\ pc \in {"returned", "raised"}
    /\ StatusOne(response_body)
    /\ NewResponse(request, response_body.json).ok

WireRequest == Get(response_body.json, "request")
WirePair == << Get(WireRequest, "Target").v, Get(WireRequest, "Method").v >>
WireData == Get(ResponseOf(response_body), "data")

\* the request's result-shape override if present, else the envelope target
WireModelName ==
    IF request.return_model # PyNone THEN request.return_model.v
    ELSE Get(WireRequest, "Target").v

\* a fragment the entity classes accept: a dict whose id, if any, is numeric
NumericId(x) == x.t = "int" \/ (x.t = "str" /\ AllDigits(x.v))
GoodFragment(f) == f.t = "dict" /\ (Has(f, "id") => NumericId(Get(f, "id")))

\* scope holds a good fragment under the model name, and the name is a model
GoodScope(scope, name) ==
    /\ name \in HASOFFERS_ENTITY_MAP
    /\ scope.t = "dict"
    /\ Has(scope, name)
    /\ GoodFragment(Get(scope, name))

\* e is the one Entity of class name built from scope[name], raw_data = scope
EntityOf(e, scope, name) ==
    /\ e.t = "entity"
    /\ e.cls = name
    /\ Keys(e.dict) = Keys(Get(scope, name)) \cup {"raw_data"}
    /\ Get(e.dict, "raw_data") = scope
    /\ \A k \in Keys(Get(scope, name)) :
          IF k = "id"
          THEN /\ Get(e.dict, "id").t = "int"
               /\ Get(Get(scope, name), "id").t = "int"
                     => Get(e.dict, "id") = Get(Get(scope, name), "id")
               /\ Get(Get(scope, name), "id") = PyStr(<<"4", "2">>)
                     => Get(e.dict, "id") = PyInt(42)
               /\ Get(Get(scope, name), "id") = PyStr(<<"0", "9">>)
                     => Get(e.dict, "id") = PyInt(9)
               /\ Get(Get(scope, name), "id") = PyStr(<<"1", "0">>)
                     => Get(e.dict, "id") = PyInt(10)
          ELSE Get(e.dict, k) = Get(Get(scope, name), k)

\* C6: for a successful response classified OBJECT, map returns None exactly
\* when data is empty, and for data holding a fragment under the model name
\* (the request's return_model if given, else the envelope target) returns one
\* Entity of that fragment, raw_data being data and id an integer that equals
\* the numeric string or number on the wire.
C6_ObjectMapping ==
    (Answered /\ WirePair \in ObjectPairs) =>
        /\ Len(WireData.v) = 0 => pc = "returned" /\ returned = PyNone
        /\ (pc = "returned" /\ returned = PyNone) => Len(WireData.v) = 0
        /\ (Len(WireData.v) > 0 /\ GoodScope(WireData, WireModelName)) =>
              pc = "returned" /\ EntityOf(returned, WireData, WireModelName)
        /\ (Len(WireData.v) > 0 /\ pc = "returned") =>
              GoodScope(WireData, WireModelName)

C6_Witness ==
    /\ Answered
    /\ WirePair = <<"Offer", "findById">>
    /\ request.return_model = PySym("OfferPixel")
    /\ WireData = PyDict(<< <<"OfferPixel", PyDict(<< <<"id", PyStr(<<"1", "0">>)>> >>)>> >>)
    /\ pc = "returned"
    /\ Get(returned.dict, "id") = PyInt(10)
    /\ returned.cls = "OfferPixel"

\* the request carries a limit that is a positive number
PositiveLimit(req) ==
    /\ Has(req.params, "limit")
    /\ \/ Get(req.params, "limit").t = "int" /\ Get(req.params, "limit").v > 0
       \/ Get(req.params, "limit") = PyStr(<<"1", "0">>)

NoLimit(req) == ~Has(req.params, "limit")

\* the collection a COLLECTION response carries for the request: under
\* data.data when the request has a positive limit, directly under data when
\* it has none
WireCollection ==
    IF PositiveLimit(request) THEN Get(WireData, "data") ELSE WireData

\* the response is shaped as the request asks
ShapedAsAsked ==
    /\ PositiveLimit(request) \/ NoLimit(request)
    /\ PositiveLimit(request) => WireData.t = "dict" /\ Has(WireData, "data")

\* every item of the collection holds a good fragment under the model name
GoodCollection(c, name) ==
    c.t = "dict" /\ \A i \in 1..Len(c.v) : GoodScope(c.v[i][2], name)

\* C7: for a successful response classified COLLECTION, a request with a
\* positive numeric limit whose items are under data.data and a request
\* without limit whose items are directly under data are mapped alike: an
\* empty collection to None, and a collection of good items to the sequence
\* of their Entities, one per item in the order of the collection, each with
\* its own item as raw_data; if an item is not good both raise.
C7_PaginationTransparent ==
    (Answered /\ WirePair \in CollectionPairs /\ ShapedAsAsked) =>
        /\ Len(WireCollection.v) = 0 => pc = "returned" /\ returned = PyNone
        /\ (Len(WireCollection.v) > 0 /\ GoodCollection(WireCollection, WireModelName)) =>
              /\ pc = "returned"
              /\ returned.t = "list"
              /\ Len(returned.v) = Len(WireCollection.v)
              /\ \A i \in 1..Len(returned.v) :
                    EntityOf(returned.v[i], WireCollection.v[i][2], WireModelName)
        /\ (Len(WireCollection.v) > 0 /\ ~GoodCollection(WireCollection, WireModelName)) =>
              pc = "raised"

C7_Witness ==
    /\ Answered
    /\ WirePair = <<"Offer", "findAll">>
    /\ PositiveLimit(request)
    /\ Get(request.params, "limit") = PyStr(<<"1", "0">>)
    /\ Has(WireData, "data")
    /\ pc = "returned"
    /\ returned.t = "list"
    /\ Len(returned.v) = MaxItems
    /\ Get(returned.v[1].dict, "raw_data") # Get(returned.v[MaxItems].dict, "raw_data")

\* C8: for a successful response whose (target, method) is not in the
\* classification table, map returns the Response itself, with the envelope's
\* fields as received, and builds no Entity, whatever the request's parameters
\* and return_model.
C8_Passthrough ==
    (Answered /\ WirePair \notin ObjectPairs \cup CollectionPairs) =>
        /\ pc = "returned"
        /\ returned.t = "response"
        /\ returned.request = request
        /\ returned.response_body = response_body.json
        /\ returned.target.v = WirePair[1]
        /\ returned.method.v = WirePair[2]
        /\ returned.status = PyInt(1)
        /\ returned.data = WireData

C8_Witness ==
    /\ Answered
    /\ WirePair = <<"Offer", "create">>
    /\ request.return_model = PySym("OfferPixel")
    /\ Truthy(WireData)
    /\ pc = "returned"
    /\ returned.t = "response"


(***************************************************************************)
(* Properties of the parameter builders.                                   *)
(***************************************************************************)
\* the parameter an optional argument is sent as
ParamKey(x) == IF x = "should_standardize" THEN "shouldStandardize" ELSE x

\* the optional arguments the operations put into the dict literal itself:
\* return_object everywhere, and the fields and contain of the find_by_id of
\* Offer and Advertiser
SentRegardless(op, x) ==
    \/ x = "return_object"
    \/ /\ op.method = "findById"
       /\ op.target \in {"Offer", "Advertiser"}
       /\ x \in {"fields", "contain"}

\* C9 as stated: the parameters handed to the transport hold Method, the
\* operation's API method name, and no optional argument whose value is
\* absent or falsy.
C9_FalsyOptionalsOmitted ==
    pc = "send" =>
        /\ Has(request.params, "Method")
        /\ Get(request.params, "Method") = PySym(operation.method)
        /\ \A x \in OptionalArgs(operation) :
              ~Truthy(arguments[x]) => ~Has(request.params, ParamKey(x))

\* C9, amended: the parameters handed to the transport hold Method, the
\* operation's API method name; return_object, and the fields and contain of
\* Offer.find_by_id and Advertiser.find_by_id, are always sent with the value
\* passed or defaulted, falsy or not; every other optional argument is sent,
\* with its value, exactly when that value is truthy.
C9_GuardedOptionalsOmitted ==
    pc = "send" =>
        /\ Has(request.params, "Method")
        /\ Get(request.params, "Method") = PySym(operation.method)
        /\ \A x \in OptionalArgs(operation) :
              /\ Has(request.params, ParamKey(x)) <=>
                    (SentRegardless(operation, x) \/ Truthy(arguments[x]))
              /\ Has(request.params, ParamKey(x)) =>
                    Get(request.params, ParamKey(x)) = arguments[x]

C9_Witness ==
    /\ pc = "send"
    /\ operation = Conversion_update
    /\ arguments["ad_id"] = PyInt(0)
    /\ arguments["should_standardize"] = PyInt(2)
    /\ ~Has(request.params, "ad_id")
    /\ ~Has(request.params, "transaction_id")
    /\ Get(request.params, "shouldStandardize") = PyInt(2)
    /\ Get(request.params, "return_object") = PyBool(FALSE)


(***************************************************************************)
(* Properties of the file attachments.                                     *)
(***************************************************************************)
\* C11: for a POST request with file attachments each file handle is held
\* for one send attempt only: no physical send transmits from a handle that
\* an earlier attempt of the same request has already read, so every handle
\* opened is read by at most one send, and a resend after a rate-limit
\* failure has a handle no send has read yet.
C11_FreshHandlePerSend ==
    /\ \A h \in DOMAIN handles : handles[h].reads <= 1
    /\ (pc = "send" /\ "method" \in DOMAIN request) =>
          \A h \in SentHandles(request) : handles[h].reads = 0

\* a rate-limit failure has triggered the retry of a POST with attachments,
\* and the resend has taken place
C11_Witness ==
    /\ operation = OfferFile_create
    /\ request.method = "POST"
    /\ SentHandles(request) # {}
    /\ sleeps >= 1
    /\ sends >= 2

====
